---- MODULE Spec2Model ----
(***************************************************************************)
(* NotesHub: multi-tenant notes service.                                   *)
(*                                                                         *)
(* The model covers backend/src: the storage engine (storage.ts: the       *)
(* in-memory MemStorage, the Mongoose-backed MongoStorage and the          *)
(* getStorage() backend selection), the authentication middleware          *)
(* (middleware/auth.ts) and the route handlers (routes.ts).                *)
(*                                                                         *)
(* Two specifications are given over the same variables:                   *)
(*   Spec         the HTTP surface: every action is one request, handled   *)
(*                from the middleware to the response, plus the            *)
(*                environment (clock, reachability of the primary).        *)
(*   StorageSpec  the IStorage contract: every action is one call of a     *)
(*                storage method on one of the two implementations.        *)
(***************************************************************************)
EXTENDS Integers, Sequences, FiniteSets, TLC

VARIABLES
    mongoUp,                 \* environment: the primary store accepts connections and commands
    connected,               \* mongoose.connect() has succeeded in this process
    mongoStorage,            \* storage.ts: let mongoStorage
    memoryStorageFallback,   \* storage.ts: let memoryStorageFallback
    db,                      \* db.MongoStorage: the collections; db.MemStorage: the maps of the fallback
    nextId,                  \* source of fresh ids (ObjectId / nanoid)
    now,                     \* wall clock, in hours
    jwtSecret,               \* process.env.JWT_SECRET is set
    wallet,                  \* tokens the clients hold
    last                     \* the last request (or storage call) and its answer

vars == <<mongoUp, connected, mongoStorage, memoryStorageFallback, db, nextId,
          now, jwtSecret, wallet, last>>

(***************************************************************************)
(* Bounds                                                                  *)
(***************************************************************************)
MaxIds == 8          \* ids handed out in one behaviour
MaxClock == 24       \* the clock never passes this hour
MaxTokens == 1       \* tokens kept by the clients
MaxCalls == 2        \* records created by direct storage calls (StorageSpec)
MaxNameLen == 3      \* length of the short organization names (SlugSpec)

(***************************************************************************)
(* Program constants                                                       *)
(***************************************************************************)
ExpiresIn == 24      \* jwt.sign(..., { expiresIn: '24h' })
FreeLimit == 3       \* noteCount >= 3
SlugMax == 50        \* .substring(0, 50)
MinPassword == 6     \* signupSchema password min(6)

Null == [kind |-> "null"]

Min(S) == CHOOSE x \in S : \A y \in S : x <= y

(***************************************************************************)
(* Strings that the code takes apart are sequences of characters.          *)
(***************************************************************************)
UpperCase == <<"A","B","C","D","E","F","G","H","I","J","K","L","M",
               "N","O","P","Q","R","S","T","U","V","W","X","Y","Z">>
LowerCase == <<"a","b","c","d","e","f","g","h","i","j","k","l","m",
               "n","o","p","q","r","s","t","u","v","w","x","y","z">>
Digits == {"0","1","2","3","4","5","6","7","8","9"}
WhiteSpace == {" ", "\t", "\n"}

toLowerChar(c) ==
    IF \E i \in DOMAIN UpperCase : UpperCase[i] = c
    THEN LowerCase[CHOOSE i \in DOMAIN UpperCase : UpperCase[i] = c]
    ELSE c

\* mutant: the name is left in the case it was typed in
toLowerCase_asIs(s) == s

toLowerCase(s) == [i \in DOMAIN s |-> toLowerChar(s[i])]

IsSlugChar(c) ==
    \/ \E i \in DOMAIN LowerCase : LowerCase[i] = c
    \/ c \in Digits
    \/ c \in WhiteSpace

\* .replace(/[^a-z0-9\s]/g, '')
RECURSIVE StripOther(_)
StripOther(s) ==
    IF s = <<>> THEN <<>>
    ELSE IF IsSlugChar(Head(s)) THEN <<Head(s)>> \o StripOther(Tail(s))
    ELSE StripOther(Tail(s))

\* .replace(/\s+/g, '-')
RECURSIVE Hyphenate(_)
Hyphenate(s) ==
    IF s = <<>> THEN <<>>
    ELSE IF Head(s) \in WhiteSpace
         THEN IF Len(s) > 1 /\ s[2] \in WhiteSpace
              THEN Hyphenate(Tail(s))
              ELSE <<"-">> \o Hyphenate(Tail(s))
         ELSE <<Head(s)>> \o Hyphenate(Tail(s))

\* .substring(0, 50)
Substring(s, n) == IF Len(s) <= n THEN s ELSE SubSeq(s, 1, n)

Slug(organizationName) ==
    Substring(Hyphenate(StripOther(toLowerCase(organizationName))), SlugMax)

(***************************************************************************)
(* Ids.  An id is a string; what matters of it is whether Mongoose casts   *)
(* it to an ObjectId ("oid"), or it is a nanoid ("nano"), or some other    *)
(* text ("text": a route parameter, or a printed document).                *)
(***************************************************************************)
ObjectId(n) == [kind |-> "oid", n |-> n]
nanoid(n) == [kind |-> "nano", n |-> n]
IsObjectId(id) == id.kind = "oid"

EmptyStore == [tenants |-> <<>>, users |-> <<>>, notes |-> <<>>]

\* first element of a collection, in insertion order, that satisfies P
FindFirst(coll, P(_)) ==
    LET hits == {i \in DOMAIN coll : P(coll[i])}
    IN  IF hits = {} THEN Null ELSE coll[Min(hits)]

Filter(coll, P(_)) == SelectSeq(coll, P)

\* Map.set(key, value): replaces in place, or appends
MapSet(coll, rec) ==
    IF \E i \in DOMAIN coll : coll[i]._id = rec._id
    THEN [i \in DOMAIN coll |-> IF coll[i]._id = rec._id THEN rec ELSE coll[i]]
    ELSE Append(coll, rec)

MapDelete(coll, id) == SelectSeq(coll, LAMBDA r : r._id # id)

(***************************************************************************)
(* bcrypt: an opaque one-way function                                      *)
(***************************************************************************)
bcryptHash(password) == <<"bcrypt", password>>
\* mutant: every password verifies
bcryptCompare_any(password, hash) == TRUE

bcryptCompare(password, hash) == hash = bcryptHash(password)

(***************************************************************************)
(* MemStorage (storage.ts): three Maps, kept here in insertion order.      *)
(* Mutators return [ok, val, store]; MemStorage never throws.              *)
(***************************************************************************)
MemStorage_getTenant(s, id) == FindFirst(s.tenants, LAMBDA t : t._id = id)

\* mutant: the name is compared, not the slug
MemStorage_getTenantBySlug_byName(s, slug) == FindFirst(s.tenants, LAMBDA t : t.name = slug)

MemStorage_getTenantBySlug(s, slug) == FindFirst(s.tenants, LAMBDA t : t.slug = slug)

MemStorage_createTenant(s, tenantData, n, t) ==
    LET tenant == [_id |-> nanoid(n), name |-> tenantData.name, slug |-> tenantData.slug,
                   plan |-> tenantData.plan, createdAt |-> t, updatedAt |-> t]
    IN  [ok |-> TRUE, val |-> tenant, store |-> [s EXCEPT !.tenants = MapSet(@, tenant)]]

\* mutant: the plan of a tenant that has one already is reset
MemStorage_updateTenantPlan_toggle(s, id, plan, t) ==
    LET tenant == MemStorage_getTenant(s, id)
    IN  IF tenant = Null THEN [ok |-> TRUE, val |-> Null, store |-> s]
        ELSE LET updatedTenant == [tenant EXCEPT
                                      !.plan = IF tenant.plan = plan THEN "free" ELSE plan,
                                      !.updatedAt = t]
             IN  [ok |-> TRUE, val |-> updatedTenant,
                  store |-> [s EXCEPT !.tenants = MapSet(@, updatedTenant)]]

MemStorage_updateTenantPlan(s, id, plan, t) ==
    LET tenant == MemStorage_getTenant(s, id)
    IN  IF tenant = Null THEN [ok |-> TRUE, val |-> Null, store |-> s]
        ELSE LET updatedTenant == [tenant EXCEPT !.plan = plan, !.updatedAt = t]
             IN  [ok |-> TRUE, val |-> updatedTenant,
                  store |-> [s EXCEPT !.tenants = MapSet(@, updatedTenant)]]

MemStorage_getUser(s, id) == FindFirst(s.users, LAMBDA u : u._id = id)

MemStorage_getUserByEmail(s, email) == FindFirst(s.users, LAMBDA u : u.email = email)

\* mutant: the user is stored without the tenant it was created for
MemStorage_createUser_noTenant(s, userData, n, t) ==
    LET user == [_id |-> nanoid(n), email |-> userData.email,
                 passwordHash |-> userData.passwordHash, role |-> userData.role,
                 tenantId |-> nanoid(0), createdAt |-> t, updatedAt |-> t]
    IN  [ok |-> TRUE, val |-> user, store |-> [s EXCEPT !.users = MapSet(@, user)]]

MemStorage_createUser(s, userData, n, t) ==
    LET user == [_id |-> nanoid(n), email |-> userData.email,
                 passwordHash |-> userData.passwordHash, role |-> userData.role,
                 tenantId |-> userData.tenantId, createdAt |-> t, updatedAt |-> t]
    IN  [ok |-> TRUE, val |-> user, store |-> [s EXCEPT !.users = MapSet(@, user)]]

\* mutant: the tenant filter is left out
MemStorage_getNotesByTenant_unfiltered(s, tenantId) == s.notes

MemStorage_getNotesByTenant(s, tenantId) ==
    Filter(s.notes, LAMBDA note : note.tenantId = tenantId)

\* mutant: the note is returned whoever owns it
MemStorage_getNote_anyTenant(s, id, tenantId) ==
    FindFirst(s.notes, LAMBDA x : x._id = id)

MemStorage_getNote(s, id, tenantId) ==
    LET note == FindFirst(s.notes, LAMBDA x : x._id = id)
    IN  IF note = Null \/ note.tenantId # tenantId THEN Null ELSE note

\* mutant: the note is returned and not put in the Map
MemStorage_createNote_unsaved(s, noteData, n, t) ==
    LET note == [_id |-> nanoid(n), title |-> noteData.title, body |-> noteData.body,
                 tenantId |-> noteData.tenantId, authorId |-> noteData.authorId,
                 createdAt |-> t, updatedAt |-> t]
    IN  [ok |-> TRUE, val |-> note, store |-> s]

MemStorage_createNote(s, noteData, n, t) ==
    LET note == [_id |-> nanoid(n), title |-> noteData.title, body |-> noteData.body,
                 tenantId |-> noteData.tenantId, authorId |-> noteData.authorId,
                 createdAt |-> t, updatedAt |-> t]
    IN  [ok |-> TRUE, val |-> note, store |-> [s EXCEPT !.notes = MapSet(@, note)]]

\* mutant: every date of the note is refreshed
Merge_dates(note, updates, t) ==
    [f \in DOMAIN note |->
        IF f \in {"createdAt", "updatedAt"} THEN t
        ELSE IF f \in DOMAIN updates THEN updates[f] ELSE note[f]]

\* { ...note, ...updates, updatedAt: new Date() }
Merge(note, updates, t) ==
    [f \in DOMAIN note |->
        IF f = "updatedAt" THEN t
        ELSE IF f \in DOMAIN updates THEN updates[f] ELSE note[f]]

\* mutant: the note is updated whoever owns it
MemStorage_updateNote_anyTenant(s, id, tenantId, updates, t) ==
    LET note == FindFirst(s.notes, LAMBDA x : x._id = id)
    IN  IF note = Null
        THEN [ok |-> TRUE, val |-> Null, store |-> s]
        ELSE LET updatedNote == Merge(note, updates, t)
             IN  [ok |-> TRUE, val |-> updatedNote,
                  store |-> [s EXCEPT !.notes = MapSet(@, updatedNote)]]

MemStorage_updateNote(s, id, tenantId, updates, t) ==
    LET note == FindFirst(s.notes, LAMBDA x : x._id = id)
    IN  IF note = Null \/ note.tenantId # tenantId
        THEN [ok |-> TRUE, val |-> Null, store |-> s]
        ELSE LET updatedNote == Merge(note, updates, t)
             IN  [ok |-> TRUE, val |-> updatedNote,
                  store |-> [s EXCEPT !.notes = MapSet(@, updatedNote)]]

MemStorage_deleteNote(s, id, tenantId) ==
    LET note == FindFirst(s.notes, LAMBDA x : x._id = id)
    IN  IF note = Null \/ note.tenantId # tenantId
        THEN [ok |-> TRUE, val |-> FALSE, store |-> s]
        ELSE [ok |-> TRUE, val |-> TRUE, store |-> [s EXCEPT !.notes = MapDelete(@, id)]]

MemStorage_countNotesByTenant(s, tenantId) ==
    Cardinality({i \in DOMAIN s.notes : s.notes[i].tenantId = tenantId})

(***************************************************************************)
(* MongoStorage (storage.ts), on the Mongoose models (models/index.ts).    *)
(* An instance exists only after connectDB() succeeded; a command fails    *)
(* while the primary is down (~mongoUp); a string that is not              *)
(* an ObjectId fails to cast.  Readers catch and answer null / [] / 0 /    *)
(* false; createTenant, createUser and createNote rethrow (ok = FALSE).    *)
(***************************************************************************)

Thrown(s) == [ok |-> FALSE, val |-> Null, store |-> s]

MongoStorage_getTenant(s, id) ==
    IF ~mongoUp \/ ~IsObjectId(id) THEN Null
    ELSE FindFirst(s.tenants, LAMBDA t : t._id = id)

MongoStorage_getTenantBySlug(s, slug) ==
    IF ~mongoUp THEN Null
    ELSE FindFirst(s.tenants, LAMBDA t : t.slug = slug)

\* tenantSchema: name and slug required, slug unique
MongoStorage_createTenant(s, tenantData, n, t) ==
    IF \/ ~mongoUp
       \/ tenantData.name = <<>> \/ tenantData.slug = <<>>
       \/ \E i \in DOMAIN s.tenants : s.tenants[i].slug = tenantData.slug
    THEN Thrown(s)
    ELSE LET tenant == [_id |-> ObjectId(n), name |-> tenantData.name, slug |-> tenantData.slug,
                        plan |-> tenantData.plan, createdAt |-> t, updatedAt |-> t]
         IN  [ok |-> TRUE, val |-> tenant, store |-> [s EXCEPT !.tenants = Append(@, tenant)]]

\* mutant: the tenant is replaced by a new document with the new plan
MongoStorage_updateTenantPlan_reinsert(s, id, plan, t) ==
    IF ~mongoUp \/ ~IsObjectId(id) THEN [ok |-> TRUE, val |-> Null, store |-> s]
    ELSE LET tenant == FindFirst(s.tenants, LAMBDA x : x._id = id)
         IN  IF tenant = Null THEN [ok |-> TRUE, val |-> Null, store |-> s]
             ELSE LET updated == [tenant EXCEPT !._id = ObjectId(0), !.plan = plan,
                                                !.updatedAt = t]
                  IN  [ok |-> TRUE, val |-> updated,
                       store |-> [s EXCEPT !.tenants = Append(MapDelete(@, id), updated)]]

MongoStorage_updateTenantPlan(s, id, plan, t) ==
    IF ~mongoUp \/ ~IsObjectId(id) THEN [ok |-> TRUE, val |-> Null, store |-> s]
    ELSE LET tenant == FindFirst(s.tenants, LAMBDA x : x._id = id)
         IN  IF tenant = Null THEN [ok |-> TRUE, val |-> Null, store |-> s]
             ELSE LET updated == [tenant EXCEPT !.plan = plan, !.updatedAt = t]
                  IN  [ok |-> TRUE, val |-> updated,
                       store |-> [s EXCEPT !.tenants = MapSet(@, updated)]]

MongoStorage_getUser(s, id) ==
    IF ~mongoUp \/ ~IsObjectId(id) THEN Null
    ELSE FindFirst(s.users, LAMBDA u : u._id = id)

MongoStorage_getUserByEmail(s, email) ==
    IF ~mongoUp THEN Null
    ELSE FindFirst(s.users, LAMBDA u : u.email = email)

\* userSchema: email unique; tenantId: new mongoose.Types.ObjectId(userData.tenantId)
MongoStorage_createUser(s, userData, n, t) ==
    IF \/ ~mongoUp
       \/ ~IsObjectId(userData.tenantId)
       \/ \E i \in DOMAIN s.users : s.users[i].email = userData.email
    THEN Thrown(s)
    ELSE LET user == [_id |-> ObjectId(n), email |-> userData.email,
                      passwordHash |-> userData.passwordHash, role |-> userData.role,
                      tenantId |-> userData.tenantId, createdAt |-> t, updatedAt |-> t]
         IN  [ok |-> TRUE, val |-> user, store |-> [s EXCEPT !.users = Append(@, user)]]

MongoStorage_getNotesByTenant(s, tenantId) ==
    IF ~mongoUp \/ ~IsObjectId(tenantId) THEN <<>>
    ELSE Filter(s.notes, LAMBDA note : note.tenantId = tenantId)

MongoStorage_getNote(s, id, tenantId) ==
    IF ~mongoUp \/ ~IsObjectId(id) \/ ~IsObjectId(tenantId) THEN Null
    ELSE FindFirst(s.notes, LAMBDA x : x._id = id /\ x.tenantId = tenantId)

\* noteSchema: title and body required
MongoStorage_createNote(s, noteData, n, t) ==
    IF \/ ~mongoUp
       \/ ~IsObjectId(noteData.tenantId) \/ ~IsObjectId(noteData.authorId)
       \/ noteData.title = "" \/ noteData.body = ""
    THEN Thrown(s)
    ELSE LET note == [_id |-> ObjectId(n), title |-> noteData.title, body |-> noteData.body,
                      tenantId |-> noteData.tenantId, authorId |-> noteData.authorId,
                      createdAt |-> t, updatedAt |-> t]
         IN  [ok |-> TRUE, val |-> note, store |-> [s EXCEPT !.notes = Append(@, note)]]

\* findOneAndUpdate({_id, tenantId}, updates, {new: true}); timestamps refresh updatedAt
MongoStorage_updateNote(s, id, tenantId, updates, t) ==
    LET note == MongoStorage_getNote(s, id, tenantId)
    IN  IF note = Null THEN [ok |-> TRUE, val |-> Null, store |-> s]
        ELSE LET updated == Merge(note, updates, t)
             IN  [ok |-> TRUE, val |-> updated,
                  store |-> [s EXCEPT !.notes = MapSet(@, updated)]]

\* deleteOne({_id, tenantId}); result.deletedCount > 0
MongoStorage_deleteNote(s, id, tenantId) ==
    IF MongoStorage_getNote(s, id, tenantId) = Null
    THEN [ok |-> TRUE, val |-> FALSE, store |-> s]
    ELSE [ok |-> TRUE, val |-> TRUE, store |-> [s EXCEPT !.notes = MapDelete(@, id)]]

MongoStorage_countNotesByTenant(s, tenantId) ==
    IF ~mongoUp \/ ~IsObjectId(tenantId) THEN 0
    ELSE Cardinality({i \in DOMAIN s.notes : s.notes[i].tenantId = tenantId})

(***************************************************************************)
(* IStorage: the call on whichever implementation getStorage() returned.   *)
(* b is "MongoStorage" or "MemStorage"; d is the value of db.  Mutators    *)
(* return [ok, val, db].                                                   *)
(***************************************************************************)
Lift(b, d, r) == [ok |-> r.ok, val |-> r.val, db |-> [d EXCEPT ![b] = r.store]]

getTenant(b, d, id) ==
    IF b = "MongoStorage" THEN MongoStorage_getTenant(d[b], id)
    ELSE MemStorage_getTenant(d[b], id)

getTenantBySlug(b, d, slug) ==
    IF b = "MongoStorage" THEN MongoStorage_getTenantBySlug(d[b], slug)
    ELSE MemStorage_getTenantBySlug(d[b], slug)

createTenant(b, d, tenantData, n, t) ==
    Lift(b, d, IF b = "MongoStorage" THEN MongoStorage_createTenant(d[b], tenantData, n, t)
               ELSE MemStorage_createTenant(d[b], tenantData, n, t))

updateTenantPlan(b, d, id, plan, t) ==
    Lift(b, d, IF b = "MongoStorage" THEN MongoStorage_updateTenantPlan(d[b], id, plan, t)
               ELSE MemStorage_updateTenantPlan(d[b], id, plan, t))

getUser(b, d, id) ==
    IF b = "MongoStorage" THEN MongoStorage_getUser(d[b], id)
    ELSE MemStorage_getUser(d[b], id)

getUserByEmail(b, d, email) ==
    IF b = "MongoStorage" THEN MongoStorage_getUserByEmail(d[b], email)
    ELSE MemStorage_getUserByEmail(d[b], email)

createUser(b, d, userData, n, t) ==
    Lift(b, d, IF b = "MongoStorage" THEN MongoStorage_createUser(d[b], userData, n, t)
               ELSE MemStorage_createUser(d[b], userData, n, t))

getNotesByTenant(b, d, tenantId) ==
    IF b = "MongoStorage" THEN MongoStorage_getNotesByTenant(d[b], tenantId)
    ELSE MemStorage_getNotesByTenant(d[b], tenantId)

getNote(b, d, id, tenantId) ==
    IF b = "MongoStorage" THEN MongoStorage_getNote(d[b], id, tenantId)
    ELSE MemStorage_getNote(d[b], id, tenantId)

createNote(b, d, noteData, n, t) ==
    Lift(b, d, IF b = "MongoStorage" THEN MongoStorage_createNote(d[b], noteData, n, t)
               ELSE MemStorage_createNote(d[b], noteData, n, t))

updateNote(b, d, id, tenantId, updates, t) ==
    Lift(b, d, IF b = "MongoStorage" THEN MongoStorage_updateNote(d[b], id, tenantId, updates, t)
               ELSE MemStorage_updateNote(d[b], id, tenantId, updates, t))

deleteNote(b, d, id, tenantId) ==
    Lift(b, d, IF b = "MongoStorage" THEN MongoStorage_deleteNote(d[b], id, tenantId)
               ELSE MemStorage_deleteNote(d[b], id, tenantId))

countNotesByTenant(b, d, tenantId) ==
    IF b = "MongoStorage" THEN MongoStorage_countNotesByTenant(d[b], tenantId)
    ELSE MemStorage_countNotesByTenant(d[b], tenantId)

(***************************************************************************)
(* storage.ts: initializeStorage / getStorage, with models/index.ts        *)
(* connectDB.  The result names the instance returned, whether a           *)
(* connection was attempted, and the module variables afterwards.          *)
(***************************************************************************)
connectDB == mongoUp       \* mongoose.connect(mongoUri) resolves

initializeStorage ==
    IF mongoStorage = "null"
    THEN IF connectDB
         THEN [storage |-> "MongoStorage", attempted |-> TRUE, connected |-> TRUE,
               mongoStorage |-> "MongoStorage",
               memoryStorageFallback |-> memoryStorageFallback]
         ELSE [storage |-> "MemStorage", attempted |-> TRUE, connected |-> connected,
               mongoStorage |-> mongoStorage,
               memoryStorageFallback |-> "MemStorage"]
    ELSE [storage |-> "MongoStorage", attempted |-> FALSE, connected |-> connected,
          mongoStorage |-> mongoStorage,
          memoryStorageFallback |-> memoryStorageFallback]

getStorage == initializeStorage

\* the handler answered before it called getStorage()
NoStorage ==
    [storage |-> "none", attempted |-> FALSE, connected |-> connected,
     mongoStorage |-> mongoStorage, memoryStorageFallback |-> memoryStorageFallback]

(***************************************************************************)
(* Tokens (jsonwebtoken)                                                   *)
(***************************************************************************)
NoToken == [form |-> "none"]
Garbage == [form |-> "garbage"]

jwtSign(user, t) ==
    [form |-> "jwt", sig |-> "good", sub |-> user._id, role |-> user.role,
     tenantId |-> user.tenantId, exp |-> t + ExpiresIn]

\* mutant: the expiry is not looked at
jwtVerify_noExpiry(token, t) ==
    /\ token.form = "jwt"
    /\ token.sig = "good"

\* jwt.verify(token, jwtSecret) returns the claims (TRUE) or throws (FALSE)
jwtVerify(token, t) ==
    /\ token.form = "jwt"
    /\ token.sig = "good"
    /\ t < token.exp

Forged(token) == [token EXCEPT !.sig = "bad"]

\* the wallets that can follow the receipt of tok
Receive(w, tok) ==
    IF tok \in w THEN {w}
    ELSE IF Cardinality(w) < MaxTokens THEN {w \cup {tok}}
    ELSE {(w \ {old}) \cup {tok} : old \in w}

(***************************************************************************)
(* middleware/auth.ts                                                      *)
(***************************************************************************)
\* the Mongoose models answer: connected, and the primary is up
MongoOk == connected /\ mongoUp

\* Document.prototype.toString() of a populated document: the printed
\* document, a text that is not an ObjectId
Inspect(doc) == [kind |-> "text", n |-> doc._id.n]

Deny(status, message) == [status |-> status, message |-> message, user |-> Null]

\* status 0: next() was called with req.user = user; d is what the models hold
authenticateTokenIn(d, token) ==
    IF token.form = "none" THEN Deny(401, "Access token required")
    ELSE IF ~jwtSecret \/ ~jwtVerify(token, now) THEN Deny(401, "Invalid token")
    \* UserModel.findById(decoded.sub).populate('tenantId')
    ELSE IF ~MongoOk \/ ~IsObjectId(token.sub) THEN Deny(401, "Invalid token")
    ELSE LET users == d.MongoStorage.users
             tenants == d.MongoStorage.tenants
             user == FindFirst(users, LAMBDA u : u._id = token.sub)
         IN  IF user = Null THEN Deny(401, "User not found")
             ELSE LET populated == FindFirst(tenants, LAMBDA x : x._id = user.tenantId)
                      \* TenantModel.findById(user.tenantId)
                      tenant == populated
                  IN  IF tenant = Null THEN Deny(401, "Tenant not found")
                      ELSE [status |-> 0, message |-> "next",
                            user |-> [_id |-> user._id,
                                      email |-> user.email,
                                      role |-> user.role,
                                      tenantId |-> Inspect(populated),
                                      tenant |-> [_id |-> tenant._id, name |-> tenant.name,
                                                  slug |-> tenant.slug, plan |-> tenant.plan]]]

\* mutant: the identity is taken from the claims of the token, no user is loaded
authenticateToken_fromClaims(token) ==
    IF token.form = "none" THEN Deny(401, "Access token required")
    ELSE IF ~jwtSecret \/ ~jwtVerify(token, now) THEN Deny(401, "Invalid token")
    ELSE [status |-> 0, message |-> "next",
          user |-> [_id |-> token.sub, email |-> "", role |-> token.role,
                    tenantId |-> token.tenantId,
                    tenant |-> [_id |-> token.tenantId, name |-> <<>>, slug |-> <<>>,
                                plan |-> "free"]]]

authenticateToken(token) == authenticateTokenIn(db, token)

requireAdmin(user) ==
    IF user = Null THEN Deny(401, "Authentication required")
    ELSE IF user.role # "Admin" THEN Deny(403, "Admin access required")
    ELSE [status |-> 0, message |-> "next", user |-> user]

(***************************************************************************)
(* shared/schema.ts: the zod schemas; parse() returns (TRUE) or throws     *)
(***************************************************************************)
InvalidEmails == {"nobody"}
IsEmail(e) == e \notin InvalidEmails

loginSchema(body) == IsEmail(body.email) /\ Len(body.password) >= 1

signupSchema(body) ==
    /\ IsEmail(body.email)
    /\ Len(body.password) >= MinPassword
    /\ Len(body.organizationName) >= 1

insertNoteSchema(body) == Len(body.title) >= 1 /\ Len(body.body) >= 1

updateNoteSchema(body) == \A f \in DOMAIN body : Len(body[f]) >= 1

(***************************************************************************)
(* Requests.  Inputs are drawn from these sets.                            *)
(***************************************************************************)
Emails == {"admin@acme.test", "user@acme.test", "a@x.io", "nobody"}
SignupEmails == {"admin@acme.test", "a@x.io", "nobody"}
Passwords == {"password", "pw"}
OrgNames == { <<"A","c","m","e">>, <<"a","c","m","e","!">>, <<>> }
Titles == {"", "t1"}
NoUpdates == [f \in {} |-> ""]
Updates == {NoUpdates, [title |-> "t2"], [body |-> ""]}

NoteIdParams ==
    {db.MongoStorage.notes[i]._id : i \in DOMAIN db.MongoStorage.notes}
    \cup {db.MemStorage.notes[i]._id : i \in DOMAIN db.MemStorage.notes}
    \cup {ObjectId(0), [kind |-> "text", n |-> 0]}

SlugParams ==
    {db.MongoStorage.tenants[i].slug : i \in DOMAIN db.MongoStorage.tenants}
    \cup {db.MemStorage.tenants[i].slug : i \in DOMAIN db.MemStorage.tenants}
    \cup {<<"n","o","n","e">>}

\* signed with this secret for a user that the primary does not store
Stale == [form |-> "jwt", sig |-> "good", sub |-> ObjectId(0), role |-> "Admin",
          tenantId |-> ObjectId(0), exp |-> now + ExpiresIn]

TokenInputs == wallet \cup {Forged(t) : t \in wallet} \cup {NoToken, Garbage, Stale}

\* what is wrong with a presented token, if anything
TokenClass(token) ==
    IF token.form # "jwt" THEN token.form
    ELSE IF token.sig # "good" THEN "badsig"
    ELSE IF ~(now < token.exp) THEN "expired"
    ELSE "good"

(***************************************************************************)
(* The outcome of a request, computed from the state it meets: the         *)
(* response (status, message, body), whether the route handler was         *)
(* entered (reached), what getStorage() did (gs), the identity attached    *)
(* to the request (user), the token handed out (issued) and the stores     *)
(* and id source it leaves.                                                *)
(***************************************************************************)
Out(route, token, st, msg, body, reached, gs, user, issued, d, n) ==
    [enabled |-> TRUE, route |-> route, tok |-> TokenClass(token),
     status |-> st, message |-> msg, body |-> body, reached |-> reached,
     gs |-> gs, user |-> user, issued |-> issued, db |-> d, nextId |-> n]

\* the id source is exhausted: the request is not taken in this model
OutOfIds == [enabled |-> FALSE]

\* what `last` keeps of an outcome
Summary(o) ==
    [route |-> o.route, tok |-> o.tok, status |-> o.status, message |-> o.message,
     reached |-> o.reached]

Apply(o) ==
    /\ o.enabled
    /\ mongoStorage' = o.gs.mongoStorage
    /\ memoryStorageFallback' = o.gs.memoryStorageFallback
    /\ connected' = o.gs.connected
    /\ db' = o.db
    /\ nextId' = o.nextId
    /\ last' = Summary(o)
    /\ wallet' \in (IF o.issued = Null THEN {wallet} ELSE Receive(wallet, o.issued))
    /\ UNCHANGED <<mongoUp, now, jwtSecret>>

(***************************************************************************)
(* routes.ts: POST /api/auth/login                                         *)
(***************************************************************************)
login(email, password) ==
    LET route == "POST /api/auth/login"
        req == [email |-> email, password |-> password]
        gs == getStorage
        b == gs.storage
        user == getUserByEmail(b, db, email)
        tenant == getTenant(b, db, user.tenantId)
        A(g, st, msg, tok) == Out(route, NoToken, st, msg, Null, TRUE, g, Null, tok, db, nextId)
    IN  IF ~loginSchema(req) THEN A(NoStorage, 500, "Internal server error", Null)
        ELSE IF user = Null THEN A(gs, 401, "Invalid credentials", Null)
        ELSE IF ~bcryptCompare(password, user.passwordHash)
             THEN A(gs, 401, "Invalid credentials", Null)
        ELSE IF tenant = Null THEN A(gs, 401, "Tenant not found", Null)
        ELSE IF ~jwtSecret THEN A(gs, 500, "Internal server error", Null)
        ELSE A(gs, 200, "ok", jwtSign(user, now))

(***************************************************************************)
(* routes.ts: POST /api/auth/signup                                        *)
(***************************************************************************)
signup(email, password, organizationName) ==
    LET route == "POST /api/auth/signup"
        req == [email |-> email, password |-> password, organizationName |-> organizationName]
        gs == getStorage
        b == gs.storage
        existingUser == getUserByEmail(b, db, email)
        slug == Slug(organizationName)
        existingTenant == getTenantBySlug(b, db, slug)
        rt == createTenant(b, db, [name |-> organizationName, slug |-> slug, plan |-> "free"],
                           nextId, now)
        ru == createUser(b, rt.db, [email |-> email, passwordHash |-> bcryptHash(password),
                                    role |-> "Admin", tenantId |-> rt.val._id],
                         nextId + 1, now)
        A(g, st, msg, d, n, tok) == Out(route, NoToken, st, msg, Null, TRUE, g, Null, tok, d, n)
    IN  IF ~signupSchema(req) THEN A(NoStorage, 500, "Internal server error", db, nextId, Null)
        ELSE IF existingUser # Null THEN A(gs, 400, "Email already registered", db, nextId, Null)
        ELSE IF existingTenant # Null
             THEN A(gs, 400, "Organization name already taken", db, nextId, Null)
        ELSE IF ~rt.ok THEN A(gs, 500, "Internal server error", db, nextId, Null)
        ELSE IF nextId + 1 > MaxIds THEN OutOfIds
        ELSE IF ~ru.ok THEN A(gs, 500, "Internal server error", rt.db, nextId + 1, Null)
        ELSE IF ~jwtSecret THEN A(gs, 500, "Internal server error", ru.db, nextId + 2, Null)
        ELSE A(gs, 201, "created", ru.db, nextId + 2, jwtSign(ru.val, now))

(***************************************************************************)
(* routes.ts: POST /api/auth/seed                                          *)
(***************************************************************************)
SeedUsers(acmeId, globexId) ==
    << [email |-> "admin@acme.test", passwordHash |-> bcryptHash("password"),
        role |-> "Admin", tenantId |-> acmeId],
       [email |-> "user@acme.test", passwordHash |-> bcryptHash("password"),
        role |-> "Member", tenantId |-> acmeId],
       [email |-> "admin@globex.test", passwordHash |-> bcryptHash("password"),
        role |-> "Admin", tenantId |-> globexId],
       [email |-> "user@globex.test", passwordHash |-> bcryptHash("password"),
        role |-> "Member", tenantId |-> globexId] >>

\* for (const userData of users) await createUser(userData): stops at the first throw
RECURSIVE CreateUsers(_, _, _, _, _)
CreateUsers(b, d, users, n, t) ==
    IF users = <<>> THEN [ok |-> TRUE, db |-> d, n |-> n]
    ELSE LET r == createUser(b, d, Head(users), n, t)
         IN  IF ~r.ok THEN [ok |-> FALSE, db |-> d, n |-> n]
             ELSE CreateUsers(b, r.db, Tail(users), n + 1, t)

AcmeSlug == <<"a","c","m","e">>
GlobexSlug == <<"g","l","o","b","e","x">>

seed ==
    LET route == "POST /api/auth/seed"
        gs == getStorage
        b == gs.storage
        existingTenant == getTenantBySlug(b, db, AcmeSlug)
        ra == createTenant(b, db,
                  [name |-> <<"A","c","m","e"," ","C","o","r","p","o","r","a","t","i","o","n">>,
                   slug |-> AcmeSlug, plan |-> "free"], nextId, now)
        rg == createTenant(b, ra.db,
                  [name |-> <<"G","l","o","b","e","x"," ","C","o","r","p","o","r","a","t","i","o","n">>,
                   slug |-> GlobexSlug, plan |-> "free"], nextId + 1, now)
        ru == CreateUsers(b, rg.db, SeedUsers(ra.val._id, rg.val._id), nextId + 2, now)
        A(st, msg, d, n) == Out(route, NoToken, st, msg, Null, TRUE, gs, Null, Null, d, n)
    IN  IF existingTenant # Null THEN A(200, "Seed data already exists", db, nextId)
        ELSE IF ~ra.ok THEN A(500, "Internal server error", db, nextId)
        ELSE IF nextId + 5 > MaxIds THEN OutOfIds
        ELSE IF ~rg.ok THEN A(500, "Internal server error", ra.db, nextId + 1)
        ELSE IF ~ru.ok THEN A(500, "Internal server error", ru.db, ru.n)
        ELSE A(201, "Seed data created successfully", ru.db, ru.n)

(***************************************************************************)
(* routes.ts: the protected routes.  app.use('/api/notes', ...) and        *)
(* app.use('/api/tenants', ...) run authenticateToken before the handler;  *)
(* a request answered by the middleware has reached = FALSE and, as its    *)
(* route, the mount whose middleware answered.                             *)
(***************************************************************************)
Rejected(mount, token, auth) ==
    Out(mount, token, auth.status, auth.message, Null, FALSE, NoStorage, Null, Null, db, nextId)

getNotes(token) ==
    LET route == "GET /api/notes"
        auth == authenticateToken(token)
        gs == getStorage
        notes == getNotesByTenant(gs.storage, db, auth.user.tenantId)
    IN  IF auth.status # 0 THEN Rejected("/api/notes", token, auth)
        ELSE Out(route, token, 200, "ok", notes, TRUE, gs, auth.user, Null, db, nextId)

\* if (!note) return res.status(404)...; res.json(note)
GetNoteAnswer(note) ==
    IF note = Null THEN [status |-> 404, message |-> "Note not found", body |-> Null]
    ELSE [status |-> 200, message |-> "ok", body |-> note]

getNoteById(token, id) ==
    LET route == "GET /api/notes/:id"
        auth == authenticateToken(token)
        gs == getStorage
        note == getNote(gs.storage, db, id, auth.user.tenantId)
        a == GetNoteAnswer(note)
    IN  IF auth.status # 0 THEN Rejected("/api/notes", token, auth)
        ELSE Out(route, token, a.status, a.message, a.body, TRUE, gs, auth.user, Null, db, nextId)

postNote(token, title, body) ==
    LET route == "POST /api/notes"
        auth == authenticateToken(token)
        user == auth.user
        gs == getStorage
        b == gs.storage
        noteCount == countNotesByTenant(b, db, user.tenantId)
        r == createNote(b, db, [title |-> title, body |-> body,
                                tenantId |-> user.tenantId, authorId |-> user._id], nextId, now)
        A(g, st, msg, out, d, n) == Out(route, token, st, msg, out, TRUE, g, user, Null, d, n)
    IN  IF auth.status # 0 THEN Rejected("/api/notes", token, auth)
        ELSE IF ~insertNoteSchema([title |-> title, body |-> body])
             THEN A(NoStorage, 500, "Internal server error", Null, db, nextId)
        ELSE IF user.tenant.plan = "free" /\ noteCount >= FreeLimit
             THEN A(gs, 403, "Note limit reached", Null, db, nextId)
        ELSE IF nextId > MaxIds THEN OutOfIds
        ELSE IF ~r.ok THEN A(gs, 500, "Internal server error", Null, db, nextId)
        ELSE A(gs, 201, "created", r.val, r.db, nextId + 1)

\* if (!note) return res.status(404)...; res.json(note)
PutNoteAnswer(note) ==
    IF note = Null THEN [status |-> 404, message |-> "Note not found", body |-> Null]
    ELSE [status |-> 200, message |-> "ok", body |-> note]

putNote(token, id, updates) ==
    LET route == "PUT /api/notes/:id"
        auth == authenticateToken(token)
        gs == getStorage
        r == updateNote(gs.storage, db, id, auth.user.tenantId, updates, now)
        a == PutNoteAnswer(r.val)
        A(g, st, msg, out, d) == Out(route, token, st, msg, out, TRUE, g, auth.user, Null, d, nextId)
    IN  IF auth.status # 0 THEN Rejected("/api/notes", token, auth)
        ELSE IF ~updateNoteSchema(updates)
             THEN A(NoStorage, 500, "Internal server error", Null, db)
        ELSE A(gs, a.status, a.message, a.body, r.db)

\* if (!deleted) return res.status(404)...; res.json({ message: 'Note deleted successfully' })
DeleteNoteAnswer(deleted) ==
    IF ~deleted THEN [status |-> 404, message |-> "Note not found", body |-> Null]
    ELSE [status |-> 200, message |-> "Note deleted successfully", body |-> Null]

deleteNoteById(token, id) ==
    LET route == "DELETE /api/notes/:id"
        auth == authenticateToken(token)
        gs == getStorage
        r == deleteNote(gs.storage, db, id, auth.user.tenantId)
        a == DeleteNoteAnswer(r.val)
    IN  IF auth.status # 0 THEN Rejected("/api/notes", token, auth)
        ELSE Out(route, token, a.status, a.message, a.body, TRUE, gs, auth.user, Null, r.db, nextId)

\* requireAdmin answers between the middleware and the handler: reached = FALSE
upgrade(token, slug) ==
    LET route == "POST /api/tenants/:slug/upgrade"
        auth == authenticateToken(token)
        user == auth.user
        admin == requireAdmin(user)
        gs == getStorage
        r == updateTenantPlan(gs.storage, db, user.tenantId, "pro", now)
        A(g, st, msg, out, d, reached) ==
            Out(route, token, st, msg, out, reached, g, user, Null, d, nextId)
    IN  IF auth.status # 0 THEN Rejected("/api/tenants", token, auth)
        ELSE IF admin.status # 0
             THEN A(NoStorage, admin.status, admin.message, Null, db, FALSE)
        ELSE IF user.tenant.slug # slug
             THEN A(NoStorage, 403, "Cannot upgrade other tenants", Null, db, TRUE)
        ELSE IF r.val = Null THEN A(gs, 404, "Tenant not found", Null, db, TRUE)
        ELSE A(gs, 200, "Tenant upgraded to Pro plan successfully", r.val, r.db, TRUE)

(***************************************************************************)
(* One action per request                                                  *)
(***************************************************************************)
Login(email, password) == Apply(login(email, password))
Signup(email, password, organizationName) == Apply(signup(email, password, organizationName))
Seed == Apply(seed)
GetNotes(token) == Apply(getNotes(token))
GetNote(token, id) == Apply(getNoteById(token, id))
PostNote(token, title, body) == Apply(postNote(token, title, body))
PutNote(token, id, updates) == Apply(putNote(token, id, updates))
DeleteNote(token, id) == Apply(deleteNoteById(token, id))
Upgrade(token, slug) == Apply(upgrade(token, slug))

(***************************************************************************)
(* Environment                                                             *)
(***************************************************************************)
EnvFrame == UNCHANGED <<connected, mongoStorage, memoryStorageFallback, db, nextId,
                        jwtSecret, wallet, last>>

\* the primary becomes reachable (it is started, the IP allow-list is fixed)
MongoComesUp == ~mongoUp /\ mongoUp' = TRUE /\ now' = now /\ EnvFrame

\* the primary becomes unreachable
MongoGoesDown == mongoUp /\ mongoUp' = FALSE /\ now' = now /\ EnvFrame

\* a day passes: every token signed before is expired afterwards
DayPasses == now + ExpiresIn <= MaxClock /\ now' = now + ExpiresIn /\ mongoUp' = mongoUp /\ EnvFrame

(***************************************************************************)
(* The HTTP surface                                                        *)
(***************************************************************************)
NoRequest ==
    [route |-> "none", tok |-> "none", status |-> 0, message |-> "", reached |-> FALSE]

Init ==
    /\ mongoUp \in BOOLEAN
    /\ connected = FALSE
    /\ mongoStorage = "null"
    /\ memoryStorageFallback = "null"
    /\ db = [MongoStorage |-> EmptyStore, MemStorage |-> EmptyStore]
    /\ nextId = 1
    /\ now = 0
    /\ jwtSecret \in BOOLEAN
    /\ wallet = {}
    /\ last = NoRequest

Next ==
    \/ \E e \in Emails, p \in Passwords : Login(e, p)
    \/ \E e \in SignupEmails, p \in Passwords, o \in OrgNames : Signup(e, p, o)
    \/ Seed
    \/ \E t \in TokenInputs : GetNotes(t)
    \/ \E t \in TokenInputs, id \in NoteIdParams : GetNote(t, id)
    \/ \E t \in TokenInputs, x \in Titles, y \in Titles : PostNote(t, x, y)
    \/ \E t \in TokenInputs, id \in NoteIdParams, u \in Updates : PutNote(t, id, u)
    \/ \E t \in TokenInputs, id \in NoteIdParams : DeleteNote(t, id)
    \/ \E t \in TokenInputs, sl \in SlugParams : Upgrade(t, sl)
    \/ MongoComesUp
    \/ MongoGoesDown
    \/ DayPasses

Spec == Init /\ [][Next]_vars

(***************************************************************************)
(* The public routes alone (login, signup, seed: no token is asked for),   *)
(* with an organization that is named like a tenant of the seed.           *)
(***************************************************************************)
PublicOrgNames ==
    { <<"A","c","m","e">>, <<"G","l","o","b","e","x">>, <<"!","!","!">>, <<>> }

PublicNext ==
    \/ \E e \in Emails, p \in Passwords : Login(e, p)
    \/ \E e \in SignupEmails, p \in Passwords, o \in PublicOrgNames : Signup(e, p, o)
    \/ Seed
    \/ MongoComesUp
    \/ MongoGoesDown
    \/ DayPasses

PublicSpec == Init /\ [][PublicNext]_vars

(***************************************************************************)
(* The IStorage contract: direct calls of the thirteen methods on one      *)
(* implementation, the one this process holds.                             *)
(***************************************************************************)
Backends == {"MongoStorage", "MemStorage"}

Impl == IF mongoStorage # "null" THEN "MongoStorage" ELSE "MemStorage"

\* ids of the kind the implementation hands out, for tenantId / authorId arguments
IdArg(b, n) == IF b = "MongoStorage" THEN ObjectId(n) ELSE nanoid(n)
TenantArgs(b) == {IdArg(b, 101), IdArg(b, 102)}
TenantData ==
    { [name |-> <<"A","c","m","e">>, slug |-> AcmeSlug, plan |-> "free"] }
UserData(b) ==
    { [email |-> "a@x.io", passwordHash |-> bcryptHash("password"), role |-> "Member",
       tenantId |-> IdArg(b, 101)] }
NoteData(b) ==
    { [title |-> "t1", body |-> "b1", tenantId |-> T, authorId |-> a] :
          T \in TenantArgs(b), a \in {IdArg(b, 201)} }

IdsOf(coll) == {coll[i]._id : i \in DOMAIN coll}
TenantIdParams(b) == IdsOf(db[b].tenants) \cup {IdArg(b, 0)}
NoteIdArgs(b) == IdsOf(db[b].notes) \cup {IdArg(b, 0)}

\* how (id, tenantId) relates to the stored notes
NoteCase(b, d, id, tenantId) ==
    LET note == FindFirst(d[b].notes, LAMBDA x : x._id = id)
    IN  IF note = Null THEN "absent"
        ELSE IF note.tenantId = tenantId THEN "match" ELSE "mismatch"

Cls(v) == IF v = Null THEN "null" ELSE "value"

\* UpdateNote arguments of direct calls
PartialNotes == {NoUpdates, [title |-> "t2"]}

\* `last` after a direct call: the method, and what it met: the NoteCase of
\* (id, tenantId), the kind of value a reader returned, "thrown"
Called(call, case) == [call |-> call, case |-> case]

StorageFrame == UNCHANGED <<mongoUp, connected, mongoStorage, memoryStorageFallback,
                            now, jwtSecret, wallet>>

Read(call, case) ==
    /\ last' = Called(call, case)
    /\ UNCHANGED <<db, nextId>>
    /\ StorageFrame

Write(call, case, r, created) ==
    /\ last' = Called(call, IF r.ok THEN case ELSE "thrown")
    /\ db' = r.db
    /\ nextId' = IF created /\ r.ok THEN nextId + 1 ELSE nextId
    /\ StorageFrame

CallGetTenant(id) == Read("getTenant", Cls(getTenant(Impl, db, id)))
CallGetTenantBySlug(slug) == Read("getTenantBySlug", Cls(getTenantBySlug(Impl, db, slug)))
CallCreateTenant(data) ==
    /\ nextId <= MaxCalls
    /\ Write("createTenant", "none", createTenant(Impl, db, data, nextId, now), TRUE)
CallUpdateTenantPlan(id, plan) ==
    Write("updateTenantPlan", "none", updateTenantPlan(Impl, db, id, plan, now), FALSE)
CallGetUser(id) == Read("getUser", Cls(getUser(Impl, db, id)))
CallGetUserByEmail(email) == Read("getUserByEmail", Cls(getUserByEmail(Impl, db, email)))
CallCreateUser(data) ==
    /\ nextId <= MaxCalls
    /\ Write("createUser", "none", createUser(Impl, db, data, nextId, now), TRUE)
CallGetNotesByTenant(tenantId) ==
    Read("getNotesByTenant",
         IF getNotesByTenant(Impl, db, tenantId) = <<>> THEN "empty" ELSE "value")
CallGetNote(id, tenantId) ==
    Read("getNote", NoteCase(Impl, db, id, tenantId))
CallCreateNote(data) ==
    /\ nextId <= MaxCalls
    /\ Write("createNote", "none", createNote(Impl, db, data, nextId, now), TRUE)
CallUpdateNote(id, tenantId, updates) ==
    Write("updateNote", NoteCase(Impl, db, id, tenantId),
          updateNote(Impl, db, id, tenantId, updates, now), FALSE)
CallDeleteNote(id, tenantId) ==
    Write("deleteNote", NoteCase(Impl, db, id, tenantId),
          deleteNote(Impl, db, id, tenantId), FALSE)
CallCountNotesByTenant(tenantId) ==
    Read("countNotesByTenant",
         IF countNotesByTenant(Impl, db, tenantId) = 0 THEN "zero" ELSE "positive")

StorageInit ==
    /\ \/ /\ mongoUp = TRUE /\ connected = TRUE
          /\ mongoStorage = "MongoStorage" /\ memoryStorageFallback = "null"
       \/ /\ mongoUp = FALSE /\ connected = FALSE
          /\ mongoStorage = "null" /\ memoryStorageFallback = "MemStorage"
    /\ db = [MongoStorage |-> EmptyStore, MemStorage |-> EmptyStore]
    /\ nextId = 1
    /\ now = 0
    /\ jwtSecret = TRUE
    /\ wallet = {}
    /\ last = Called("none", "none")

StorageNext ==
    \/ \E id \in TenantIdParams(Impl) : CallGetTenant(id)
    \/ \E slug \in {AcmeSlug, GlobexSlug} : CallGetTenantBySlug(slug)
    \/ \E data \in TenantData : CallCreateTenant(data)
    \/ \E id \in TenantIdParams(Impl) : CallUpdateTenantPlan(id, "pro")
    \/ \E id \in IdsOf(db[Impl].users) \cup {IdArg(Impl, 0)} : CallGetUser(id)
    \/ \E email \in {"a@x.io", "admin@acme.test"} : CallGetUserByEmail(email)
    \/ \E data \in UserData(Impl) : CallCreateUser(data)
    \/ \E T \in TenantArgs(Impl) : CallGetNotesByTenant(T)
    \/ \E id \in NoteIdArgs(Impl), T \in TenantArgs(Impl) : CallGetNote(id, T)
    \/ \E data \in NoteData(Impl) : CallCreateNote(data)
    \/ \E id \in NoteIdArgs(Impl), T \in TenantArgs(Impl), u \in PartialNotes :
           CallUpdateNote(id, T, u)
    \/ \E id \in NoteIdArgs(Impl), T \in TenantArgs(Impl) : CallDeleteNote(id, T)
    \/ \E T \in TenantArgs(Impl) : CallCountNotesByTenant(T)
    \/ DayPasses

StorageSpec == StorageInit /\ [][StorageNext]_vars

(***************************************************************************)
(* storage.ts: getStorage() step by step, for callers that overlap.  Here  *)
(* `last` holds the position of each caller in initializeStorage (pc),     *)
(* how many calls were made (calls), how many times connectDB() was called *)
(* (attempts), how many MongoStorage objects were made (made) and the      *)
(* objects that were returned (returned).                                  *)
(***************************************************************************)
StartInit ==
    /\ mongoUp \in BOOLEAN
    /\ connected = FALSE
    /\ mongoStorage = "null"
    /\ memoryStorageFallback = "null"
    /\ db = [MongoStorage |-> EmptyStore, MemStorage |-> EmptyStore]
    /\ nextId = 1
    /\ now = 0
    /\ jwtSecret = TRUE
    /\ wallet = {}
    /\ last = [pc |-> [c \in 1..MaxCalls |-> "idle"], calls |-> 0, attempts |-> 0, made |-> 0,
               returned |-> {}]

\* if (!mongoStorage) { await connectDB() ... } return mongoStorage
GetStorageCall(c) ==
    /\ last.pc[c] # "connecting"
    /\ last.calls < 2 * MaxCalls
    /\ last' = IF mongoStorage = "null"
               THEN [last EXCEPT !.pc[c] = "connecting", !.calls = @ + 1,
                                 !.attempts = @ + 1]
               ELSE [last EXCEPT !.pc[c] = "returned", !.calls = @ + 1,
                                 !.returned = @ \cup {<<"MongoStorage", last.made>>}]
    /\ UNCHANGED <<mongoUp, connected, mongoStorage, memoryStorageFallback, db, nextId,
                   now, jwtSecret, wallet>>

\* mongoose.connect settles: mongoStorage = new MongoStorage(), or the catch
\* block with if (!memoryStorageFallback) memoryStorageFallback = new MemStorage()
ConnectSettles(c) ==
    /\ last.pc[c] = "connecting"
    /\ IF connectDB
       THEN /\ connected' = TRUE
            /\ mongoStorage' = "MongoStorage"
            /\ memoryStorageFallback' = memoryStorageFallback
            /\ last' = [last EXCEPT !.pc[c] = "returned", !.made = @ + 1,
                                    !.returned = @ \cup {<<"MongoStorage", last.made + 1>>}]
       ELSE /\ connected' = connected
            /\ mongoStorage' = mongoStorage
            /\ memoryStorageFallback' = "MemStorage"
            /\ last' = [last EXCEPT !.pc[c] = "returned",
                                    !.returned = @ \cup {<<"MemStorage", 1>>}]
    /\ UNCHANGED <<mongoUp, db, nextId, now, jwtSecret, wallet>>

StartNext ==
    \/ \E c \in 1..MaxCalls : GetStorageCall(c)
    \/ \E c \in 1..MaxCalls : ConnectSettles(c)
    \/ MongoComesUp
    \/ MongoGoesDown

StartSpec == StartInit /\ [][StartNext]_vars

(***************************************************************************)
(* routes.ts: POST /api/notes step by step, for two requests that may      *)
(* overlap.  The process is connected to a primary that holds the tenant   *)
(* 'acme' on the free plan, its Admin and up to FreeLimit notes of the     *)
(* tenant, as MongoStorage.createTenant, createUser and createNote write   *)
(* them (the database outlives the process); both requests carry the       *)
(* token of the Admin and a valid body.                                    *)
(* Here `last` holds, for each request, its position (pc), the identity    *)
(* the middleware attached (user), the count it read (count, -1 when none  *)
(* was read) and its answer (status).                                      *)
(***************************************************************************)
RaceInit ==
    /\ mongoUp = TRUE
    /\ connected = TRUE
    /\ mongoStorage = "MongoStorage"
    /\ memoryStorageFallback = "null"
    /\ \E k \in 0..FreeLimit :
           db = [MongoStorage |->
                    [tenants |-> << [_id |-> ObjectId(1), name |-> <<"A","c","m","e">>,
                                     slug |-> AcmeSlug, plan |-> "free",
                                     createdAt |-> 0, updatedAt |-> 0] >>,
                     users |-> << [_id |-> ObjectId(2), email |-> "admin@acme.test",
                                   passwordHash |-> bcryptHash("password"),
                                   role |-> "Admin", tenantId |-> ObjectId(1),
                                   createdAt |-> 0, updatedAt |-> 0] >>,
                     notes |-> [i \in 1..k |->
                                   [_id |-> ObjectId(2 + i), title |-> "t1", body |-> "b1",
                                    tenantId |-> ObjectId(1), authorId |-> ObjectId(2),
                                    createdAt |-> 0, updatedAt |-> 0]]],
                 MemStorage |-> EmptyStore]
    /\ nextId = 3 + FreeLimit
    /\ now = 0
    /\ jwtSecret = TRUE
    /\ wallet = {jwtSign([_id |-> ObjectId(2), role |-> "Admin", tenantId |-> ObjectId(1)], 0)}
    /\ last = [r \in 1..2 |-> [pc |-> "idle", user |-> Null, count |-> -1, status |-> 0]]

\* app.use('/api/notes', authenticateToken): req.user is set, or the
\* middleware answers
ResolveIdentity(r) ==
    /\ last[r].pc = "idle"
    /\ \E token \in wallet :
           LET auth == authenticateToken(token)
           IN  last' = IF auth.status # 0
                       THEN [last EXCEPT ![r].pc = "answered", ![r].status = auth.status]
                       ELSE [last EXCEPT ![r].pc = "resolved", ![r].user = auth.user]
    /\ UNCHANGED <<db, nextId>>
    /\ StorageFrame

\* if (user.tenant.plan === 'free') { noteCount = await countNotesByTenant(...);
\* if (noteCount >= 3) return res.status(403) }
CheckLimit(r) ==
    /\ last[r].pc = "resolved"
    /\ LET user == last[r].user
           noteCount == countNotesByTenant(getStorage.storage, db, user.tenantId)
       IN  last' = IF user.tenant.plan # "free"
                   THEN [last EXCEPT ![r].pc = "checked"]
                   ELSE IF noteCount >= FreeLimit
                        THEN [last EXCEPT ![r].pc = "answered", ![r].count = noteCount,
                                          ![r].status = 403]
                        ELSE [last EXCEPT ![r].pc = "checked", ![r].count = noteCount]
    /\ UNCHANGED <<db, nextId>>
    /\ StorageFrame

\* note = await createNote({...noteData, tenantId, authorId}); res.status(201),
\* or the catch block
InsertNote(r) ==
    /\ last[r].pc = "checked"
    /\ nextId <= MaxIds
    /\ LET user == last[r].user
           res == createNote(getStorage.storage, db,
                             [title |-> "t1", body |-> "b1", tenantId |-> user.tenantId,
                              authorId |-> user._id], nextId, now)
       IN  /\ db' = res.db
           /\ nextId' = IF res.ok THEN nextId + 1 ELSE nextId
           /\ last' = [last EXCEPT ![r].pc = "answered",
                                   ![r].status = IF res.ok THEN 201 ELSE 500]
    /\ StorageFrame

\* the plan of the tenant becomes pro in the primary
UpgradeCommits ==
    /\ db.MongoStorage.tenants[1].plan = "free"
    /\ db' = updateTenantPlan("MongoStorage", db, ObjectId(1), "pro", now).db
    /\ UNCHANGED <<nextId, last>>
    /\ StorageFrame

RaceNext ==
    \/ \E r \in 1..2 : ResolveIdentity(r)
    \/ \E r \in 1..2 : CheckLimit(r)
    \/ \E r \in 1..2 : InsertNote(r)
    \/ UpgradeCommits

RaceSpec == RaceInit /\ [][RaceNext]_vars

(***************************************************************************)
(* Notes created and updated through IStorage, with every UpdateNote that  *)
(* updateNoteSchema lets through: title, body, both or neither.            *)
(***************************************************************************)
NoteNext ==
    \/ \E data \in NoteData(Impl) : CallCreateNote(data)
    \/ \E id \in NoteIdArgs(Impl), T \in TenantArgs(Impl),
          u \in PartialNotes \cup {[body |-> "b2"], [title |-> "t2", body |-> "b2"]} :
           CallUpdateNote(id, T, u)
    \/ DayPasses

NoteSpec == StorageInit /\ [][NoteNext]_vars

(***************************************************************************)
(* The slug derivation of signup alone: an organizationName is drawn,      *)
(* then the slug is derived from it.                                       *)
(***************************************************************************)
AcmeCorp == <<"A","c","m","e"," ","C","o","r","p","!">>
SlugInputs ==
    LET SlugAlphabet == {"A", "b", "7", " ", "\t", "!", "-"}
        ShortNames == UNION {[1..k -> SlugAlphabet] : k \in 0..MaxNameLen}
        Pad(k) == [i \in 1..k |-> "a"]
        LongNames ==
            {Pad(k) \o t : k \in {SlugMax - 2, SlugMax - 1, SlugMax},
                           t \in {<<"B">>, <<" ", "b">>, <<"!", " ", " ", "b">>}}
    IN  ShortNames \cup LongNames \cup {AcmeCorp}

SlugInit ==
    /\ mongoUp = FALSE
    /\ connected = FALSE
    /\ mongoStorage = "null"
    /\ memoryStorageFallback = "null"
    /\ db = [MongoStorage |-> EmptyStore, MemStorage |-> EmptyStore]
    /\ nextId = 1
    /\ now = 0
    /\ jwtSecret = TRUE
    /\ wallet = {}
    /\ last \in {[call |-> "organizationName", name |-> n, slug |-> <<>>] : n \in SlugInputs}

DeriveSlug ==
    /\ last.call = "organizationName"
    /\ last' = [call |-> "slug", name |-> last.name, slug |-> Slug(last.name)]
    /\ UNCHANGED <<mongoUp, connected, mongoStorage, memoryStorageFallback, db, nextId,
                   now, jwtSecret, wallet>>

SlugNext == DeriveSlug

SlugSpec == SlugInit /\ [][SlugNext]_vars

(***************************************************************************)
(* Properties                                                              *)
(***************************************************************************)
ProtectedMounts == {"/api/notes", "/api/tenants"}

ProtectedRoutes ==
    {"GET /api/notes", "GET /api/notes/:id", "POST /api/notes", "PUT /api/notes/:id",
     "DELETE /api/notes/:id", "POST /api/tenants/:slug/upgrade"}

\* P holds of the outcome of every protected request that presents `token`
ForAllProtected(token, P(_)) ==
    /\ P(getNotes(token))
    /\ \A id \in NoteIdParams : P(getNoteById(token, id))
    /\ \A x \in Titles, y \in Titles : P(postNote(token, x, y))
    /\ \A id \in NoteIdParams, u \in Updates : P(putNote(token, id, u))
    /\ \A id \in NoteIdParams : P(deleteNoteById(token, id))
    /\ \A sl \in SlugParams : P(upgrade(token, sl))

\* the request left everything as it was and handed out nothing
NoEffect(o) ==
    /\ o.db = db
    /\ o.nextId = nextId
    /\ o.issued = Null
    /\ o.gs.storage = "none"

Stored(b, T) == {i \in DOMAIN db[b].notes : db[b].notes[i].tenantId = T}

\* C1: on both implementations and for every tenant T, every note that
\* getNotesByTenant(T) returns has tenantId = T, and it returns exactly the
\* stored notes of T: a note of another tenant never appears.
C1_NotesOfTenantOnly ==
    \A b \in Backends : \A T \in TenantArgs(b) :
        LET notes == getNotesByTenant(b, db, T)
        IN  /\ \A i \in DOMAIN notes : notes[i].tenantId = T
            /\ Len(notes) = Cardinality(Stored(b, T))

\* C1 witness: the list was asked for while notes of two tenants are stored
C1_Witness ==
    /\ last.call = "getNotesByTenant"
    /\ last.case = "value"
    /\ \E i, j \in DOMAIN db[Impl].notes :
           db[Impl].notes[i].tenantId # db[Impl].notes[j].tenantId

\* the stores as they would be if no note had the id
WithoutNote(d, b, id) == [d EXCEPT ![b].notes = MapDelete(@, id)]

\* C2: for every stored note and every tenant T other than its owner,
\* getNote(id, T) returns null, and GET /api/notes/:id answers exactly as it
\* does in the state that differs only in that no note has that id:
\* 404 "Note not found".
C2_ForeignNoteLooksAbsent ==
    \A i \in DOMAIN db[Impl].notes : \A T \in TenantArgs(Impl) :
        LET note == db[Impl].notes[i]
            here == getNote(Impl, db, note._id, T)
            there == getNote(Impl, WithoutNote(db, Impl, note._id), note._id, T)
        IN  T # note.tenantId =>
                /\ here = Null
                /\ there = Null
                /\ GetNoteAnswer(here) = GetNoteAnswer(there)
                /\ GetNoteAnswer(here).status = 404
                /\ GetNoteAnswer(here).message = "Note not found"

\* C2 witness: getNote was called with the id of a stored note and the id of
\* a tenant that does not own it
C2_Witness ==
    /\ last.call = "getNote"
    /\ last.case = "mismatch"

\* C3: for every stored note and every tenant T other than its owner,
\* updateNote(id, T, updates) returns null and deleteNote(id, T) returns
\* false, PUT and DELETE /api/notes/:id answer 404, and both leave every
\* stored note (its updatedAt included) and the set of stored notes as they were.
C3_ForeignNoteUntouched ==
    \A i \in DOMAIN db[Impl].notes : \A T \in TenantArgs(Impl) :
        LET note == db[Impl].notes[i]
            deleted == deleteNote(Impl, db, note._id, T)
        IN  T # note.tenantId =>
                /\ \A u \in PartialNotes :
                       LET updated == updateNote(Impl, db, note._id, T, u, now)
                       IN  /\ updated.val = Null
                           /\ updated.db = db
                           /\ PutNoteAnswer(updated.val).status = 404
                /\ deleted.val = FALSE
                /\ deleted.db = db
                /\ DeleteNoteAnswer(deleted.val).status = 404

\* C3 witness: updateNote was called for a note of another tenant, later than
\* the note was last written, and the note is still stored
C3_Witness ==
    /\ last.call = "updateNote"
    /\ last.case = "mismatch"
    /\ \E i \in DOMAIN db[Impl].notes : db[Impl].notes[i].updatedAt < now

\* the stored user and tenant a token speaks for, on the primary
SubjectOf(token) == FindFirst(db.MongoStorage.users, LAMBDA u : u._id = token.sub)
TenantOf(user) == FindFirst(db.MongoStorage.tenants, LAMBDA x : x._id = user.tenantId)

\* the token verifies: signed with the secret of this process and not expired
Verifies(token) == jwtSecret /\ TokenClass(token) = "good"

C6_Guarded(token, o) ==
    o.enabled =>
        /\ (o.reached \/ o.gs.storage # "none" \/ o.db # db) =>
               /\ Verifies(token)
               /\ SubjectOf(token) # Null
               /\ TenantOf(SubjectOf(token)) # Null
        /\ token = NoToken =>
               o.status = 401 /\ o.message = "Access token required" /\ ~o.reached
        /\ (Verifies(token) /\ MongoOk /\ IsObjectId(token.sub)) =>
               /\ SubjectOf(token) = Null =>
                      o.status = 401 /\ o.message = "User not found" /\ ~o.reached
               /\ (SubjectOf(token) # Null /\ TenantOf(SubjectOf(token)) = Null) =>
                      o.status = 401 /\ o.message = "Tenant not found" /\ ~o.reached

\* C6: on every protected route, the handler is entered, getStorage() is
\* called or a store is written only if the request carried a token that
\* verifies, whose subject is a stored user whose tenant is stored; a request
\* without a token is answered 401 before any handler; a verified token
\* whose user is missing is answered 401 "User not found", one whose tenant
\* is missing 401 "Tenant not found".
C6_HandlersBehindIdentity ==
    \A t \in TokenInputs : ForAllProtected(t, LAMBDA o : C6_Guarded(t, o))

\* C6 witness: a protected request with a verified token was answered by its handler
C6_Witness ==
    /\ last.route \in ProtectedRoutes
    /\ last.tok = "good"
    /\ last.reached

C7_Refused(o) ==
    o.enabled =>
        /\ o.status = 401
        /\ o.message = "Invalid token"
        /\ ~o.reached
        /\ NoEffect(o)

\* C7: a malformed, a wrongly signed and an expired token get the same
\* answer on every protected route: 401 "Invalid token", never 500; the
\* handler is not entered and nothing changes.
C7_BadTokenUniform401 ==
    \A t \in TokenInputs :
        TokenClass(t) \in {"garbage", "badsig", "expired"} => ForAllProtected(t, C7_Refused)

\* C7 witness: a protected request presented a token that had expired
C7_Witness ==
    /\ last.route \in ProtectedMounts
    /\ last.tok = "expired"
    /\ last.status = 401

\* the notes of tenant T in store b, counted from the stored records
NotesOf(b, T) == {i \in DOMAIN db[b].notes : db[b].notes[i].tenantId = T}

C4_Limit(token, title, body) ==
    LET auth == authenticateToken(token)
        o == postNote(token, title, body)
        tenant == auth.user.tenant
        count == Cardinality(NotesOf(o.gs.storage, tenant._id))
    IN  (auth.status = 0 /\ insertNoteSchema([title |-> title, body |-> body]) /\ o.enabled) =>
            /\ (tenant.plan = "free" /\ count >= FreeLimit) =>
                   o.status = 403 /\ o.db = db
            /\ (tenant.plan = "free" /\ count < FreeLimit) => o.status = 201
            /\ tenant.plan = "pro" => o.status # 403

\* C4 (as the specification states it): a valid POST /api/notes of an
\* authenticated caller is answered 403 and creates nothing when the
\* caller's tenant is on the free plan and holds 3 or more notes, is
\* answered 201 when it is on the free plan and holds fewer than 3, and is
\* never answered 403 when it is on the pro plan.
C4_FreePlanLimit ==
    \A t \in TokenInputs : \A x \in Titles, y \in Titles : C4_Limit(t, x, y)

C5_Upgrade(token, slug) ==
    LET auth == authenticateToken(token)
        user == auth.user
        o == upgrade(token, slug)
        before == db[o.gs.storage].tenants
        after == o.db[o.gs.storage].tenants
    IN  auth.status = 0 =>
            /\ user.role = "Member" => o.status = 403
            /\ (user.role = "Admin" /\ user.tenant.slug # slug) => o.status = 403
            /\ o.status # 200 => o.db = db
            /\ (user.role = "Admin" /\ user.tenant.slug = slug) =>
                   /\ o.status = 200
                   /\ DOMAIN after = DOMAIN before
                   /\ \A i \in DOMAIN after :
                          IF before[i]._id = user.tenant._id
                          THEN after[i].plan = "pro"
                          ELSE after[i] = before[i]

\* C5 (as the specification states it): on POST /api/tenants/:slug/upgrade a
\* Member is answered 403, an Admin whose tenant's slug is not the slug of
\* the path is answered 403, every request that is not accepted leaves all
\* plans as they were, and an Admin whose tenant's slug is the slug of the
\* path is accepted: that tenant becomes pro and no other tenant changes.
C5_UpgradeOwnTenantByAdmin ==
    \A t \in TokenInputs : \A sl \in SlugParams : C5_Upgrade(t, sl)

\* the implementation that stores the subject of a token
IssuedBy(token) == IF IsObjectId(token.sub) THEN "MongoStorage" ELSE "MemStorage"

\* C8 (as the specification states it): a token handed out by signup or
\* login and not yet expired, presented while getStorage() returns the
\* implementation that stores its user (and that implementation answers),
\* passes the identity resolver, which attaches the identity of that user.
C8_ResolverReadsStorageEngine ==
    \A t \in wallet :
        LET auth == authenticateToken(t)
        IN  (/\ TokenClass(t) = "good"
             /\ getStorage.storage = IssuedBy(t)
             /\ (IssuedBy(t) = "MongoStorage" => mongoUp)) =>
                (auth.status = 0 /\ auth.user._id = t.sub)

\* C9 (as the specification states it): once getStorage() has returned the
\* in-memory fallback, every later getStorage() returns the fallback and
\* makes no attempt to connect to the primary.
C9_FallbackSticky ==
    memoryStorageFallback # "null" =>
        (getStorage.storage = "MemStorage" /\ ~getStorage.attempted)

C10_Signup(email, password, organizationName) ==
    LET o == signup(email, password, organizationName)
        b == getStorage.storage
        answers == b = "MemStorage" \/ mongoUp
        registered == \E i \in DOMAIN db[b].users : db[b].users[i].email = email
        taken == \E i \in DOMAIN db[b].tenants :
                     db[b].tenants[i].slug = Slug(organizationName)
    IN  (/\ signupSchema([email |-> email, password |-> password,
                          organizationName |-> organizationName])
         /\ (registered \/ taken)) =>
            /\ o.enabled
            /\ o.status = (IF answers THEN 400 ELSE 500)
            /\ (answers /\ registered) => o.message = "Email already registered"
            /\ (answers /\ ~registered) => o.message = "Organization name already taken"
            /\ o.db = db
            /\ o.nextId = nextId
            /\ o.issued = Null

\* C10: a valid signup whose email is the email of a stored user, or whose
\* organizationName gives the slug of a stored tenant, in the store that
\* getStorage() returns, is answered 400 ("Email already registered",
\* else "Organization name already taken"), creates no tenant and no user
\* and hands out no token; while the primary holds the records and does
\* not answer, the answer is 500, again with nothing created.
C10_DuplicateSignupRejected ==
    \A e \in SignupEmails : \A p \in Passwords : \A n \in OrgNames : C10_Signup(e, p, n)

\* C10 witness: a signup was refused because its organizationName gave the
\* slug of a stored tenant
C10_Witness ==
    /\ last.route = "POST /api/auth/signup"
    /\ last.status = 400
    /\ last.message = "Organization name already taken"

\* C11 (as the specification states it): in each store, no two stored
\* tenants have the same slug.
C11_SlugsUnique ==
    \A b \in Backends : \A i, j \in DOMAIN db[b].tenants :
        db[b].tenants[i].slug = db[b].tenants[j].slug => i = j

\* C12 (as the specification states it): in each store, no two stored users
\* have the same email, whatever their tenants.
C12_EmailsUnique ==
    \A b \in Backends : \A i, j \in DOMAIN db[b].users :
        db[b].users[i].email = db[b].users[j].email => i = j

\* the derivation as the specification words it
C13_Lower(c) ==
    IF \E i \in 1..26 : UpperCase[i] = c
    THEN LowerCase[CHOOSE i \in 1..26 : UpperCase[i] = c]
    ELSE c
C13_Lowered(n) == [i \in DOMAIN n |-> C13_Lower(n[i])]
C13_Letters == {LowerCase[i] : i \in 1..26}
C13_Spaces == {" ", "\t", "\n"}
C13_Keeps(c) == c \in C13_Letters \cup Digits \cup C13_Spaces
C13_Kept(n) == SelectSeq(C13_Lowered(n), C13_Keeps)
\* one output character for every character that is not whitespace and one
\* for the first character of every run of whitespace
C13_Starts(k) == {i \in DOMAIN k : k[i] \notin C13_Spaces \/ i = 1 \/ k[i - 1] \notin C13_Spaces}
C13_Nth(S, j) == CHOOSE i \in S : Cardinality({x \in S : x < i}) = j - 1
C13_Hyphenated(k) ==
    [j \in 1..Cardinality(C13_Starts(k)) |->
        IF k[C13_Nth(C13_Starts(k), j)] \in C13_Spaces THEN "-"
        ELSE k[C13_Nth(C13_Starts(k), j)]]
C13_First(s, n) == [i \in 1..(IF Len(s) < n THEN Len(s) ELSE n) |-> s[i]]
C13_Expected(n) == C13_First(C13_Hyphenated(C13_Kept(n)), 50)
\* the name without its punctuation
C13_Unpunctuated(n) == SelectSeq(n, LAMBDA c : C13_Keeps(C13_Lower(c)))

\* C13: the slug derived from organizationName is the name in lower case,
\* without the characters that are not a-z, 0-9 or whitespace, with one
\* hyphen for each run of whitespace, cut to its first 50 characters;
\* 'Acme Corp!' gives 'acme-corp'; the name in lower case and the name
\* without its punctuation give the same slug as the name.
C13_SlugDerivation ==
    /\ Slug(AcmeCorp) = <<"a","c","m","e","-","c","o","r","p">>
    /\ last.call = "slug" =>
           /\ last.slug = C13_Expected(last.name)
           /\ Len(last.slug) <= 50
           /\ Slug(C13_Lowered(last.name)) = last.slug
           /\ Slug(C13_Unpunctuated(last.name)) = last.slug

\* C13 witness: the slug of 'Acme Corp!' has been derived
C13_Witness ==
    /\ last.call = "slug"
    /\ last.name = AcmeCorp
    /\ last.slug = <<"a","c","m","e","-","c","o","r","p">>

C14_Signup(email, password, organizationName) ==
    LET o == signup(email, password, organizationName)
        b == o.gs.storage
        before == db[b]
        after == o.db[b]
        tenant == after.tenants[Len(after.tenants)]
        user == after.users[Len(after.users)]
    IN  (o.enabled /\ o.status = 201) =>
            /\ Len(after.tenants) = Len(before.tenants) + 1
            /\ SubSeq(after.tenants, 1, Len(before.tenants)) = before.tenants
            /\ tenant.plan = "free"
            /\ tenant._id \notin IdsOf(before.tenants)
            /\ Len(after.users) = Len(before.users) + 1
            /\ SubSeq(after.users, 1, Len(before.users)) = before.users
            /\ user.role = "Admin"
            /\ user.tenantId = tenant._id
            /\ user._id \notin IdsOf(before.users)
            /\ after.notes = before.notes
            /\ \A c \in Backends \ {b} : o.db[c] = db[c]

\* C14: a signup answered 201 adds exactly one tenant, with plan free, and
\* exactly one user, with role Admin and the id of that tenant as tenantId,
\* and changes nothing else; in every reachable state the tenantId of every
\* stored user is the id of exactly one stored tenant.
C14_SignupCreatesTenantAndAdmin ==
    /\ \A e \in SignupEmails : \A p \in Passwords : \A n \in PublicOrgNames :
           C14_Signup(e, p, n)
    /\ \A b \in Backends : \A i \in DOMAIN db[b].users :
           Cardinality({j \in DOMAIN db[b].tenants :
                           db[b].tenants[j]._id = db[b].users[i].tenantId}) = 1

\* C14 witness: a signup was answered 201 and its user is stored
C14_Witness ==
    /\ last.route = "POST /api/auth/signup"
    /\ last.status = 201
    /\ \E b \in Backends : \E i \in DOMAIN db[b].users : db[b].users[i].role = "Admin"

\* the identity is the one the claims of the token name
C15_AsClaimed(token, auth) ==
    /\ auth.status = 0
    /\ auth.user._id = token.sub
    /\ auth.user.role = token.role
    /\ auth.user.tenant._id = token.tenantId

\* P holds of the outcome of every request that can be served in this state
C15_ForAllRequests(P(_)) ==
    /\ \A e \in Emails, p \in Passwords : P(login(e, p))
    /\ \A e \in SignupEmails, p \in Passwords, n \in OrgNames : P(signup(e, p, n))
    /\ P(seed)
    /\ \A x \in TokenInputs : ForAllProtected(x, P)

C15_Kept(token) ==
    LET upgraded == updateTenantPlan("MongoStorage", db, token.tenantId, "pro", now)
    IN  authenticateToken(token).status = 0 =>
            /\ C15_AsClaimed(token, authenticateToken(token))
            \* after the plan of the tenant has changed
            /\ upgraded.val # Null
            /\ C15_AsClaimed(token, authenticateTokenIn(upgraded.db, token))
            /\ authenticateTokenIn(upgraded.db, token).user.tenant.plan = "pro"
            \* after any request
            /\ C15_ForAllRequests(LAMBDA o :
                   o.enabled => C15_AsClaimed(token, authenticateTokenIn(o.db, token)))

\* C15: a token that authenticates does so as the user, role and tenant
\* its claims name, and it still does after any request that the system
\* serves, whatever the request and whoever sends it, and after the plan
\* of its tenant has been changed: nothing revokes an unexpired token.
C15_TokensNeverRevoked == \A t \in wallet : C15_Kept(t)

\* C15 witness: a token in a wallet authenticates after an upgrade request
\* has been served by its handler
C15_Witness ==
    /\ last.route = "POST /api/tenants/:slug/upgrade"
    /\ last.reached
    /\ \E t \in wallet : authenticateToken(t).status = 0

\* the process is connected to the primary and the primary does not answer
C16_PrimaryFails == connected /\ ~mongoUp

C16_Is500(o) == o.enabled => o.status = 500

\* C16 (as the specification states it): while the primary fails, a
\* protected request with a token that verifies, whose user lookup
\* therefore fails, is answered 500, and so is a valid login, whose user
\* lookup fails in the storage engine: never 401, 404 or 200.
C16_FailuresSurfaceAs500 ==
    C16_PrimaryFails =>
        /\ \A t \in TokenInputs : Verifies(t) => ForAllProtected(t, C16_Is500)
        /\ \A e \in Emails, p \in Passwords :
               (loginSchema([email |-> e, password |-> p])
                /\ getStorage.storage = "MongoStorage") => C16_Is500(login(e, p))

C17_Is400(o) ==
    o.enabled => (o.status = 400 /\ o.db = db /\ o.nextId = nextId /\ o.issued = Null)

\* C17 (as the specification states it): a signup, a login, a create note
\* and an update note whose body does not pass the schema of the route is
\* answered 400 and changes nothing (for the note routes: once the caller
\* is authenticated).
C17_MalformedBodyIs400 ==
    /\ \A e \in SignupEmails, p \in Passwords, n \in OrgNames :
           ~signupSchema([email |-> e, password |-> p, organizationName |-> n]) =>
               C17_Is400(signup(e, p, n))
    /\ \A e \in Emails, p \in Passwords :
           ~loginSchema([email |-> e, password |-> p]) => C17_Is400(login(e, p))
    /\ \A t \in TokenInputs : authenticateToken(t).status = 0 =>
           /\ \A x \in Titles, y \in Titles :
                  ~insertNoteSchema([title |-> x, body |-> y]) => C17_Is400(postNote(t, x, y))
           /\ \A id \in NoteIdParams, u \in Updates :
                  ~updateNoteSchema(u) => C17_Is400(putNote(t, id, u))

\* the users of the active store that the credentials designate
C18_Matching(email, password) ==
    {i \in DOMAIN db[getStorage.storage].users :
        /\ db[getStorage.storage].users[i].email = email
        /\ db[getStorage.storage].users[i].passwordHash = bcryptHash(password)}

C18_Known(email) ==
    \E i \in DOMAIN db[getStorage.storage].users :
        db[getStorage.storage].users[i].email = email

C18_HasTenant(u) ==
    \E j \in DOMAIN db[getStorage.storage].tenants :
        db[getStorage.storage].tenants[j]._id = u.tenantId

C18_Refused(o) ==
    /\ o.status = 401
    /\ o.message = "Invalid credentials"
    /\ o.body = Null
    /\ o.issued = Null

\* C18: a login is answered 200 with a token only when a stored user has
\* the email, the password verifies against the hash of that user and the
\* tenant of that user exists, and the token carries the id, role and
\* tenantId of that user; an unknown email and a wrong password are both
\* answered 401 'Invalid credentials' with the same response; a login that
\* is not answered 200 (a missing tenant included) issues no token.
C18_Login ==
    \A e \in Emails, p \in Passwords :
        LET o == login(e, p)
            users == db[getStorage.storage].users
        IN  /\ o.status = 200 =>
                /\ o.issued # Null
                /\ \E i \in C18_Matching(e, p) :
                       /\ C18_HasTenant(users[i])
                       /\ o.issued.sub = users[i]._id
                       /\ o.issued.role = users[i].role
                       /\ o.issued.tenantId = users[i].tenantId
            /\ o.status # 200 => o.issued = Null
            /\ (loginSchema([email |-> e, password |-> p]) /\ C18_Matching(e, p) = {}) =>
                   C18_Refused(o)
            /\ (o.status = 401 /\ o.message # "Invalid credentials") =>
                   \E i \in C18_Matching(e, p) : ~C18_HasTenant(users[i])

\* a login was answered 200, and in the state it leaves one email is
\* unknown and one known email is tried with a wrong password
C18_Witness ==
    /\ last.route = "POST /api/auth/login"
    /\ last.status = 200
    /\ \E e \in Emails, p \in Passwords :
           /\ loginSchema([email |-> e, password |-> p])
           /\ ~C18_Known(e)
           /\ C18_Refused(login(e, p))
    /\ \E e \in Emails, p \in Passwords :
           /\ C18_Known(e)
           /\ C18_Matching(e, p) = {}
           /\ C18_Refused(login(e, p))

\* the tenant `old` is kept by the collection `tenants`: same id, name and
\* slug, and a plan that is the same or went from free to pro
C19_Kept(old, tenants) ==
    \E j \in DOMAIN tenants :
        /\ tenants[j]._id = old._id
        /\ tenants[j].name = old.name
        /\ tenants[j].slug = old.slug
        /\ tenants[j].plan # old.plan => (old.plan = "free" /\ tenants[j].plan = "pro")

C19_SamePlans(old, tenants) ==
    \A j \in DOMAIN tenants : tenants[j]._id = old._id => tenants[j].plan = old.plan

\* the stores that a call of a mutating method of IStorage can leave, from
\* the current state, with the arguments the callers pass
C19_Calls ==
    {[call |-> "createTenant", db |-> createTenant(Impl, db, data, nextId, now).db] :
        data \in TenantData}
    \cup {[call |-> "updateTenantPlan", db |-> updateTenantPlan(Impl, db, id, "pro", now).db] :
        id \in TenantIdParams(Impl)}
    \cup {[call |-> "createUser", db |-> createUser(Impl, db, data, nextId, now).db] :
        data \in UserData(Impl)}
    \cup {[call |-> "createNote", db |-> createNote(Impl, db, data, nextId, now).db] :
        data \in NoteData(Impl)}
    \cup {[call |-> "updateNote", db |-> updateNote(Impl, db, id, T, u, now).db] :
        id \in NoteIdArgs(Impl), T \in TenantArgs(Impl), u \in PartialNotes}
    \cup {[call |-> "deleteNote", db |-> deleteNote(Impl, db, id, T).db] :
        id \in NoteIdArgs(Impl), T \in TenantArgs(Impl)}

\* C19: whatever mutating call is made next, every stored tenant stays
\* stored with its id, name and slug; its plan never goes from pro to free;
\* a plan changes only from free to pro and only in a call of
\* updateTenantPlan, which leaves a pro tenant pro.
C19_PlanOneDirectional ==
    \A c \in C19_Calls : \A b \in Backends : \A i \in DOMAIN db[b].tenants :
        /\ C19_Kept(db[b].tenants[i], c.db[b].tenants)
        /\ c.call # "updateTenantPlan" => C19_SamePlans(db[b].tenants[i], c.db[b].tenants)

\* updateTenantPlan was called on a stored tenant (its updatedAt moved past
\* its createdAt) and the tenant is pro
C19_Witness ==
    /\ last.call = "updateTenantPlan"
    /\ \E i \in DOMAIN db[Impl].tenants :
           /\ db[Impl].tenants[i].plan = "pro"
           /\ db[Impl].tenants[i].updatedAt > db[Impl].tenants[i].createdAt

C20_Fields == {"_id", "title", "body", "tenantId", "authorId", "createdAt", "updatedAt"}

\* createNote(data) at the current time, then getNote(n._id, n.tenantId)
C20_CreateThenGet(data) ==
    LET r == createNote(Impl, db, data, nextId, now)
        g == getNote(Impl, r.db, r.val._id, r.val.tenantId)
    IN  r.ok =>
            /\ r.val # Null
            /\ g # Null
            /\ DOMAIN g = C20_Fields
            /\ \A f \in C20_Fields : g[f] = r.val[f]
            /\ \A f \in DOMAIN data : g[f] = data[f]

\* updateNote(n._id, n.tenantId, u) of the stored note n at the current
\* time, then getNote(n._id, n.tenantId)
C20_UpdateThenGet(n, u) ==
    LET r == updateNote(Impl, db, n._id, n.tenantId, u, now)
        g == getNote(Impl, r.db, n._id, n.tenantId)
    IN  /\ r.ok
        /\ r.val # Null
        /\ g = r.val
        /\ \A f \in DOMAIN u : g[f] = u[f]
        /\ \A f \in C20_Fields \ (DOMAIN u \cup {"updatedAt"}) : g[f] = n[f]
        /\ g.updatedAt >= n.updatedAt

\* C20: getNote(n._id, n.tenantId) right after createNote(data) returned n
\* returns a note equal to n in all seven fields; after an updateNote of a
\* stored note, getNote returns the note with the updated fields, the other
\* fields as they were, and an updatedAt that is not earlier than before.
C20_RoundTrip ==
    /\ \A data \in NoteData(Impl) : C20_CreateThenGet(data)
    /\ \A i \in DOMAIN db[Impl].notes, u \in PartialNotes :
           C20_UpdateThenGet(db[Impl].notes[i], u)

\* a stored note was updated a day after it was created (title and
\* updatedAt moved) and getNote returns it as stored
C20_Witness ==
    /\ last = Called("updateNote", "match")
    /\ \E i \in DOMAIN db[Impl].notes :
           LET n == db[Impl].notes[i]
           IN  /\ n.title = "t2"
               /\ n.updatedAt > n.createdAt
               /\ getNote(Impl, db, n._id, n.tenantId) = n

\* C22 (as the specification states it): the identity attached to a
\* protected request carries the role and the tenantId of the stored user
\* that the token names and the plan of the stored tenant of that user, and
\* requireAdmin decides on the stored role.
C22_IdentityIsStoredRecord ==
    \A t \in TokenInputs :
        LET auth == authenticateToken(t)
        IN  auth.status = 0 =>
                /\ auth.user.role = SubjectOf(t).role
                /\ auth.user.tenantId = SubjectOf(t).tenantId
                /\ auth.user.tenant.plan = TenantOf(SubjectOf(t)).plan
                /\ (requireAdmin(auth.user).status = 0) = (SubjectOf(t).role = "Admin")

\* the storage that getStorage() returns answers its calls
C28_StorageAnswers == getStorage.storage = "MemStorage" \/ mongoUp

C28_NotInvalidToken(o) == o.enabled => ~(o.status = 401 /\ o.message = "Invalid token")

\* C28 (as the specification states it): while JWT_SECRET is not
\* configured, no protected request that presents a well-formed, signed and
\* unexpired token to a connected primary is answered 401 'Invalid token',
\* no login and no signup with a valid body on a storage that answers is
\* answered 500, and no signup persists anything.
C28_AbsentSecretIsNoRequestError ==
    ~jwtSecret =>
        /\ \A t \in TokenInputs :
               (MongoOk /\ TokenClass(t) = "good") => ForAllProtected(t, C28_NotInvalidToken)
        /\ \A e \in Emails, p \in Passwords :
               (loginSchema([email |-> e, password |-> p]) /\ C28_StorageAnswers) =>
                   login(e, p).status # 500
        /\ \A e \in SignupEmails, p \in Passwords, n \in OrgNames :
               LET o == signup(e, p, n)
               IN  (signupSchema([email |-> e, password |-> p, organizationName |-> n])
                    /\ C28_StorageAnswers /\ o.enabled) =>
                       (o.status # 500 /\ o.db = db)

C29_Created(o, b) ==
    /\ Len(o.db[b].tenants) = Len(db[b].tenants) + 1
    /\ Len(o.db[b].users) = Len(db[b].users) + 1

\* C29 (as the specification states it): every signup either answers 201
\* having created exactly one tenant and one user, or answers 400 or 500
\* having created nothing; and every stored tenant has a user.
C29_SignupAllOrNothing ==
    /\ \A e \in SignupEmails, p \in Passwords, n \in PublicOrgNames :
           LET o == signup(e, p, n)
           IN  o.enabled =>
                   \/ o.status = 201 /\ C29_Created(o, getStorage.storage)
                   \/ o.status \in {400, 500} /\ o.db = db
    /\ \A b \in Backends : \A i \in DOMAIN db[b].tenants :
           \E j \in DOMAIN db[b].users : db[b].users[j].tenantId = db[b].tenants[i]._id

\* C26 (as the specification states it): every stored tenant has a
\* non-empty slug.
C26_SlugsNonEmpty ==
    \A b \in Backends : \A i \in DOMAIN db[b].tenants : db[b].tenants[i].slug # <<>>

\* the call succeeded and stored a record with a new id and fresh timestamps
C27_Succeeds(r, coll) ==
    /\ r.ok
    /\ r.val # Null
    /\ r.val._id \notin IdsOf(coll)
    /\ r.val.createdAt = now
    /\ r.val.updatedAt = now

\* C27 (as the specification states it): on either implementation
\* createTenant with the slug of a stored tenant and createUser with the
\* email of a stored user succeed, with a new id and timestamps.
C27_NoUniquenessAtStorage ==
    /\ \A data \in TenantData :
           (\E i \in DOMAIN db[Impl].tenants : db[Impl].tenants[i].slug = data.slug) =>
               C27_Succeeds(createTenant(Impl, db, data, nextId, now), db[Impl].tenants)
    /\ \A data \in UserData(Impl) :
           (\E i \in DOMAIN db[Impl].users : db[Impl].users[i].email = data.email) =>
               C27_Succeeds(createUser(Impl, db, data, nextId, now), db[Impl].users)

C25_Updates ==
    {NoUpdates, [title |-> "t2"], [body |-> "b2"], [title |-> "t2", body |-> "b2"]}

\* the stored note with the id of n, after the call that left the store d
C25_After(d, n) == FindFirst(d[Impl].notes, LAMBDA x : x._id = n._id)

\* updateNote(n._id, T, u) of the stored note n at the current time
C25_UpdateKeeps(n, T, u) ==
    LET r == updateNote(Impl, db, n._id, T, u, now)
        m == C25_After(r.db, n)
    IN  /\ r.ok
        /\ m # Null
        /\ \A f \in {"_id", "tenantId", "authorId", "createdAt"} : m[f] = n[f]
        /\ \A f \in {"title", "body"} :
               /\ m[f] = (IF T = n.tenantId /\ f \in DOMAIN u THEN u[f] ELSE n[f])
               /\ m[f] # ""
        /\ m.updatedAt = (IF T = n.tenantId THEN now ELSE n.updatedAt)
        /\ m.updatedAt >= n.updatedAt
        /\ Len(r.db[Impl].notes) = Len(db[Impl].notes)

\* C25: an update keeps the id, tenantId, authorId and createdAt of the
\* note, changes only the provided fields among title and body, leaves
\* title and body non-empty and sets updatedAt to the time of the edit,
\* which is not earlier than the former one; every stored note has the
\* tenantId and authorId given at its creation and createdAt <= updatedAt.
C25_NoteImmutables ==
    \A i \in DOMAIN db[Impl].notes :
        LET n == db[Impl].notes[i]
        IN  /\ \A T \in TenantArgs(Impl), u \in C25_Updates : C25_UpdateKeeps(n, T, u)
            /\ n.tenantId \in TenantArgs(Impl)
            /\ n.authorId = IdArg(Impl, 201)
            /\ n.createdAt <= n.updatedAt
            /\ n.updatedAt <= now
            /\ n.title # "" /\ n.body # ""

\* a note created on the first day had its body, and only its body,
\* updated on the next day
C25_Witness ==
    /\ last = Called("updateNote", "match")
    /\ \E i \in DOMAIN db[Impl].notes :
           LET n == db[Impl].notes[i]
           IN  /\ n.title = "t1"
               /\ n.body = "b2"
               /\ n.createdAt = 0
               /\ n.updatedAt = now
               /\ now > 0

\* C24 (as the specification states it): connectDB() is called at most
\* once, and all getStorage() calls, overlapping or later, return one and
\* the same backend object.
C24_InitializedOnce ==
    /\ last.attempts <= 1
    /\ Cardinality(last.returned) <= 1

\* the notes that the tenant of the requests holds in the primary
C21_Held == Cardinality({i \in DOMAIN db.MongoStorage.notes :
                            db.MongoStorage.notes[i].tenantId = ObjectId(1)})

\* the notes that the two requests created
C21_Made == Cardinality({r \in 1..2 : last[r].status = 201})

\* request r went through the limit check as a request of a free tenant
C21_PassedAsFree(r) ==
    /\ last[r].pc \in {"checked", "answered"}
    /\ last[r].user # Null
    /\ last[r].user.tenant.plan = "free"
    /\ last[r].status # 403

C30_Alone(r) == \A q \in 1..2 : q # r => last[q].pc = "idle"

====
